---- MODULE Spec2Model ----
(***************************************************************************)
(* Model of @aryanjsx/api-response: the typed application error and its    *)
(* named constructors, the metadata generator, the four response builders  *)
(* and the error-normalization middleware returned by globalErrorHandler,  *)
(* driven through a request life cycle                                     *)
(*   idle --Throw--> thrown --HandleError--> done --NextRequest--> idle,   *)
(*   idle --Call<builder>--> done --Return--> idle.                        *)
(*                                                                         *)
(* A JavaScript object is a function whose domain is the set of keys the   *)
(* object has; an absent key is an undefined property.                     *)
(***************************************************************************)
EXTENDS Integers, Sequences, FiniteSets, TLC

VARIABLES
    nodeEnv,     \* process.env.NODE_ENV
    clock,       \* the system clock read by new Date(), in milliseconds
    pc,          \* "idle" | "thrown" | "done"
    err,         \* the failure handed to the middleware
    req,         \* the request context handed to the middleware
    sink,        \* the calls recorded on the response object of this request
    ret,         \* what the middleware returned: "res", or "none"
    nextCalls,   \* the calls made on the continuation (next)
    raised,      \* TRUE when the middleware itself threw
    call,        \* the function invoked last and the arguments it was given
    opLog,       \* every operation the response object received, in order
    builderCalls,          \* the builder invocations made on the response object
    createdInProduction    \* the mode was "production" when globalErrorHandler() ran

vars == <<nodeEnv, clock, pc, err, req, sink, ret, nextCalls, raised,
          call, opLog, builderCalls, createdInProduction>>

----------------------------------------------------------------------------
(* Bounds and input domains *)

MaxClock == 1

\* the builder invocations made on one response object
MaxInvocations == 2

\* pagination inputs: page in -1..MaxPage, limit in 1..MaxLimit,
\* total in 0..MaxTotal
MaxPage == 3

MaxLimit == 2

MaxTotal == 4

\* the values process.env.NODE_ENV takes; "" stands for an unset variable
NodeEnvs == {"production", "development", "test", "Production", "prod", ""}

StatusCodes == {0, 400, 404, 500, 503}

Messages == {"", "Sensitive details", "Internal server error"}

Stacks == {"", "Error: Sensitive details\n    at handler (app.js:1:1)"}

Codes == {"", "USER_NOT_FOUND"}

RequestIds == {"", "req-123"}

HeaderIds == {"", "header-123"}

EmptyObject == [k \in {} |-> k]

----------------------------------------------------------------------------
(* meta.ts *)

\* Date.prototype.toISOString for the instants of the model (clock < 10)
ToISOString(t) == "1970-01-01T00:00:00.00" \o ToString(t) \o "Z"

\* mutation: extra metadata, when given, is returned as it is
generateMeta_ExtraOnly(additionalMeta, now) ==
    IF DOMAIN additionalMeta # {}
    THEN additionalMeta
    ELSE [timestamp |-> ToISOString(now)]

\* mutation: the spread comes first, the generated timestamp is protected
generateMeta_TimestampLast(additionalMeta, now) ==
    [k \in {"timestamp"} \cup DOMAIN additionalMeta |->
        IF k = "timestamp" THEN ToISOString(now) ELSE additionalMeta[k]]

\* { timestamp: new Date().toISOString(), ...additionalMeta }
generateMeta(additionalMeta, now) ==
    [k \in {"timestamp"} \cup DOMAIN additionalMeta |->
        IF k \in DOMAIN additionalMeta THEN additionalMeta[k]
        ELSE ToISOString(now)]

----------------------------------------------------------------------------
(* appError.ts *)

CapturedStack == "AppError\n    at throwSite (app.js:1:1)"

\* mutation: only failures below 500 are marked operational
AppError_ServerNotOperational(args) ==
    [kind |-> "AppError",
     f |-> [name |-> "AppError",
            message |-> args.message,
            statusCode |-> IF "statusCode" \in DOMAIN args
                           THEN args.statusCode ELSE 500,
            code |-> IF "code" \in DOMAIN args
                     THEN args.code ELSE "INTERNAL_ERROR",
            isOperational |-> IF "statusCode" \in DOMAIN args
                              THEN args.statusCode < 500 ELSE FALSE,
            stack |-> CapturedStack]]

\* new AppError(message, statusCode = 500, code = 'INTERNAL_ERROR'); args is
\* the object of the arguments actually passed
AppError(args) ==
    [kind |-> "AppError",
     f |-> [name |-> "AppError",
            message |-> args.message,
            statusCode |-> IF "statusCode" \in DOMAIN args
                           THEN args.statusCode ELSE 500,
            code |-> IF "code" \in DOMAIN args
                     THEN args.code ELSE "INTERNAL_ERROR",
            isOperational |-> TRUE,
            stack |-> CapturedStack]]

\* the argument lists of the primary constructor
AppErrorArgs ==
    { [message |-> m] : m \in Messages }
    \cup { [message |-> m, statusCode |-> s] : m \in Messages, s \in StatusCodes }
    \cup { [message |-> m, statusCode |-> s, code |-> c] :
             m \in Messages, s \in StatusCodes, c \in Codes }

\* the objects that have key k with a value of S, or do not have it
Optional(k, S) == { EmptyObject } \cup { k :> v : v \in S }

\* a parameter with a default value: the default stands in for an omitted
\* argument
Default(args, k, d) == IF k \in DOMAIN args THEN args[k] ELSE d

\* mutation: badRequest lets the code argument choose the status
badRequest_StatusFromCode(args) ==
    AppError([message |-> args.message,
              statusCode |-> IF "code" \in DOMAIN args THEN 500 ELSE 400,
              code |-> Default(args, "code", "BAD_REQUEST")])

\* static badRequest(message, code = 'BAD_REQUEST')
badRequest(args) ==
    AppError([message |-> args.message,
              statusCode |-> 400,
              code |-> Default(args, "code", "BAD_REQUEST")])

\* static unauthorized(message = 'Unauthorized', code = 'UNAUTHORIZED')
unauthorized(args) ==
    AppError([message |-> Default(args, "message", "Unauthorized"),
              statusCode |-> 401,
              code |-> Default(args, "code", "UNAUTHORIZED")])

\* static forbidden(message = 'Forbidden', code = 'FORBIDDEN')
forbidden(args) ==
    AppError([message |-> Default(args, "message", "Forbidden"),
              statusCode |-> 403,
              code |-> Default(args, "code", "FORBIDDEN")])

\* static notFound(message = 'Resource not found', code = 'NOT_FOUND')
notFound(args) ==
    AppError([message |-> Default(args, "message", "Resource not found"),
              statusCode |-> 404,
              code |-> Default(args, "code", "NOT_FOUND")])

\* static conflict(message, code = 'CONFLICT')
conflict(args) ==
    AppError([message |-> args.message,
              statusCode |-> 409,
              code |-> Default(args, "code", "CONFLICT")])

\* static internal(message = 'Internal server error', code = 'INTERNAL_ERROR')
internal(args) ==
    AppError([message |-> Default(args, "message", "Internal server error"),
              statusCode |-> 500,
              code |-> Default(args, "code", "INTERNAL_ERROR")])

\* the argument lists of badRequest and conflict: the message is required
RequiredMessageArgs ==
    { [message |-> m] @@ c : m \in Messages, c \in Optional("code", Codes) }

\* the argument lists of unauthorized, forbidden, notFound and internal
OptionalMessageArgs ==
    { m @@ c : m \in Optional("message", Messages), c \in Optional("code", Codes) }

NamedConstructors ==
    {"badRequest", "unauthorized", "forbidden", "notFound", "conflict", "internal"}

\* every way route code makes an AppError: new AppError(...) or
\* AppError.<named constructor>(...)
Constructions ==
    { [fn |-> "new", args |-> a] : a \in AppErrorArgs }
    \cup { [fn |-> n, args |-> a] :
              n \in {"badRequest", "conflict"}, a \in RequiredMessageArgs }
    \cup { [fn |-> n, args |-> a] :
              n \in NamedConstructors \ {"badRequest", "conflict"},
              a \in OptionalMessageArgs }

\* the AppError a construction yields
Construct(c) ==
    CASE c.fn = "new" -> AppError(c.args)
      [] c.fn = "badRequest" -> badRequest(c.args)
      [] c.fn = "unauthorized" -> unauthorized(c.args)
      [] c.fn = "forbidden" -> forbidden(c.args)
      [] c.fn = "notFound" -> notFound(c.args)
      [] c.fn = "conflict" -> conflict(c.args)
      [] c.fn = "internal" -> internal(c.args)

----------------------------------------------------------------------------
(* Failures that are not AppError instances *)

\* every object over the keys statusCode, message, stack, code, each present
\* or absent; a thrown primitive reads like the object without keys
ErrorObjects ==
    { s @@ m @@ t @@ c :
        s \in Optional("statusCode", StatusCodes),
        m \in Optional("message", Messages),
        t \in Optional("stack", Stacks),
        c \in Optional("code", Codes) }

UnknownFailures ==
    { [kind |-> "Error", f |-> o] : o \in ErrorObjects }

\* throw null / throw undefined: a value no property can be read from
NullishFailures == { [kind |-> "Nullish", f |-> EmptyObject] }

Failures ==
    { Construct(c) : c \in Constructions } \cup UnknownFailures \cup NullishFailures

NoFailure == [kind |-> "None", f |-> EmptyObject]

----------------------------------------------------------------------------
(* Request contexts: ApiRequest of types.ts *)

\* string | string[] | undefined, tagged with what typeof reports
HeaderValues ==
    { [typeof |-> "string", v |-> <<h>>] : h \in HeaderIds }
    \cup { [typeof |-> "object", v |-> <<h>>] : h \in HeaderIds }
    \cup { [typeof |-> "object", v |-> <<"header-123", "header-456">>] }

HeaderMaps ==
    { EmptyObject } \cup { "x-request-id" :> h : h \in HeaderValues }

Requests ==
    { [headers |-> hm] : hm \in HeaderMaps }
    \cup { [requestId |-> r, headers |-> hm] : r \in RequestIds, hm \in HeaderMaps }

NoRequest == [headers |-> EmptyObject]

----------------------------------------------------------------------------
(* error.ts: the middleware returned by globalErrorHandler *)

HasTruthyString(o, k) == k \in DOMAIN o /\ o[k] # ""

HasTruthyNumber(o, k) == k \in DOMAIN o /\ o[k] # 0

\* mutation: any x-request-id entry is taken, whatever its type
HeaderIsString_AnyType(r) == "x-request-id" \in DOMAIN r.headers

\* typeof req.headers['x-request-id'] === 'string'
HeaderIsString(r) ==
    /\ "x-request-id" \in DOMAIN r.headers
    /\ r.headers["x-request-id"].typeof = "string"

\* mutation: the header is consulted before req.requestId
RequestIdOf_HeaderFirst(r) ==
    IF /\ "x-request-id" \in DOMAIN r.headers
       /\ r.headers["x-request-id"].typeof = "string"
       /\ r.headers["x-request-id"].v # <<"">>
    THEN r.headers["x-request-id"].v
    ELSE IF HasTruthyString(r, "requestId") THEN <<r.requestId>>
    ELSE <<>>

\* req.requestId || (typeof header === 'string' ? header : null), as the
\* sequence of at most one string (<<>> is null)
RequestIdOf(r) ==
    IF HasTruthyString(r, "requestId") THEN <<r.requestId>>
    ELSE IF HeaderIsString(r) THEN r.headers["x-request-id"].v
    ELSE <<>>

\* mutation: { requestId } is built even when no id was found
HandlerMeta_AlwaysKey(r) ==
    IF "requestId" \in DOMAIN r /\ r.requestId # ""
    THEN [requestId |-> r.requestId]
    ELSE IF /\ "x-request-id" \in DOMAIN r.headers
            /\ r.headers["x-request-id"].typeof = "string"
    THEN [requestId |-> r.headers["x-request-id"].v[1]]
    ELSE [requestId |-> "null"]

\* requestId ? { requestId } : {}
HandlerMeta(r) ==
    LET requestId == RequestIdOf(r)
    IN  IF requestId # <<>> /\ requestId[1] # ""
        THEN [requestId |-> requestId[1]]
        ELSE EmptyObject

\* mutation: the mode is compared without regard to case
IsProduction_CaseInsensitive(env) == env \in {"production", "Production"}

\* process.env.NODE_ENV === 'production'
IsProduction(env) == env = "production"

\* mutation: ?? in place of ||, only a missing statusCode gives 500
EffectiveStatus_Nullish(f) ==
    IF "statusCode" \in DOMAIN f THEN f.statusCode ELSE 500

\* (err as AppError).statusCode || 500
EffectiveStatus(f) ==
    IF HasTruthyNumber(f, "statusCode") THEN f.statusCode ELSE 500

\* mutation: production redacts a message only when there is one
UnknownMessage_RedactsNonEmpty(f, env) ==
    IF HasTruthyString(f, "message")
    THEN IF IsProduction(env) /\ EffectiveStatus(f) = 500
         THEN "Internal server error" ELSE f.message
    ELSE "An unexpected error occurred"

\* mutation: the production redaction is missing
UnknownMessage_NoRedaction(f, env) ==
    IF HasTruthyString(f, "message") THEN f.message
    ELSE "An unexpected error occurred"

\* mutation: production redacts whatever the status
UnknownMessage_RedactsAll(f, env) ==
    IF IsProduction(env)
    THEN "Internal server error"
    ELSE IF HasTruthyString(f, "message") THEN f.message
    ELSE "An unexpected error occurred"

\* isProduction && statusCode === 500 ? 'Internal server error'
\*   : err.message || 'An unexpected error occurred'
UnknownMessage(f, env) ==
    IF IsProduction(env) /\ EffectiveStatus(f) = 500
    THEN "Internal server error"
    ELSE IF HasTruthyString(f, "message") THEN f.message
    ELSE "An unexpected error occurred"

\* mutation: production withholds the stack only where it redacts the message
AttachesStack_UnlessRedacted(f, env) ==
    /\ ~(IsProduction(env) /\ EffectiveStatus(f) = 500)
    /\ HasTruthyString(f, "stack")

\* mutation: the stack is attached in development mode only
AttachesStack_DevelopmentOnly(f, env) ==
    env = "development" /\ HasTruthyString(f, "stack")

\* if (!isProduction && err.stack) response.stack = err.stack
AttachesStack(f, env) == ~IsProduction(env) /\ HasTruthyString(f, "stack")

\* mutation: the stack the AppError captured is sent along
AppErrorResponse_WithStack(f, r, now) ==
    [success |-> FALSE,
     statusCode |-> f.statusCode,
     message |-> f.message,
     code |-> f.code,
     meta |-> generateMeta(HandlerMeta(r), now),
     stack |-> f.stack]

\* the response built for an AppError instance
AppErrorResponse(f, r, now) ==
    [success |-> FALSE,
     statusCode |-> f.statusCode,
     message |-> f.message,
     code |-> f.code,
     meta |-> generateMeta(HandlerMeta(r), now)]

\* mutation: the code of the failure, when it has one, is passed on
UnknownResponse_CopiesCode(f, r, env, now) ==
    LET response == [success |-> FALSE,
                     statusCode |-> EffectiveStatus(f),
                     message |-> UnknownMessage(f, env),
                     code |-> IF HasTruthyString(f, "code") THEN f.code
                              ELSE "INTERNAL_ERROR",
                     meta |-> generateMeta(HandlerMeta(r), now)]
    IN  IF AttachesStack(f, env)
        THEN response @@ ("stack" :> f.stack)
        ELSE response

\* the response built for any other failure
UnknownResponse(f, r, env, now) ==
    LET response == [success |-> FALSE,
                     statusCode |-> EffectiveStatus(f),
                     message |-> UnknownMessage(f, env),
                     code |-> "INTERNAL_ERROR",
                     meta |-> generateMeta(HandlerMeta(r), now)]
    IN  IF AttachesStack(f, env)
        THEN response @@ ("stack" :> f.stack)
        ELSE response

\* mutation: the body is sent before the status is set
Send_BodyFirst(code, body) ==
    <<[op |-> "json", arg |-> body], [op |-> "status", arg |-> code]>>

\* res.status(code).json(body) on a chainable response: the two calls, in order
Send(code, body) ==
    <<[op |-> "status", arg |-> code], [op |-> "json", arg |-> body]>>

\* the chainable response object of tests/mocks.ts: status and json return this
StatusReturns(res) == res

JsonReturns(res) == res

\* mutation: the result of the chain is not returned
Returned_Nothing(res) == "none"

\* return res.status(code).json(body): what the caller gets back
Returned(res) == JsonReturns(StatusReturns(res))

\* mutation: the instanceof test is missing, an AppError takes the unknown path
ErrorHandler_NoInstanceof(e, r, env, now) ==
    IF e.kind = "Nullish"
    THEN [raised |-> TRUE, ret |-> "none", next |-> <<>>, calls |-> <<>>]
    ELSE [raised |-> FALSE, ret |-> Returned("res"), next |-> <<>>,
          calls |-> Send(EffectiveStatus(e.f), UnknownResponse(e.f, r, env, now))]

\* mutation: after answering an unknown failure the middleware calls next(err)
ErrorHandler_CallsNext(e, r, env, now) ==
    IF e.kind = "AppError"
    THEN [raised |-> FALSE, ret |-> Returned("res"), next |-> <<>>,
          calls |-> Send(e.f.statusCode, AppErrorResponse(e.f, r, now))]
    ELSE IF e.kind = "Nullish"
    THEN [raised |-> TRUE, ret |-> "none", next |-> <<>>, calls |-> <<>>]
    ELSE [raised |-> FALSE, ret |-> Returned("res"), next |-> <<e.kind>>,
          calls |-> Send(EffectiveStatus(e.f), UnknownResponse(e.f, r, env, now))]

\* One invocation handler(err, req, res, _next): the calls it makes on res
\* and on _next, what it returns and whether it throws.  Reading a property
\* of null or undefined throws a TypeError before anything is sent.
ErrorHandler(e, r, env, now) ==
    IF e.kind = "AppError"
    THEN [raised |-> FALSE, ret |-> Returned("res"), next |-> <<>>,
          calls |-> Send(e.f.statusCode, AppErrorResponse(e.f, r, now))]
    ELSE IF e.kind = "Nullish"
    THEN [raised |-> TRUE, ret |-> "none", next |-> <<>>, calls |-> <<>>]
    ELSE [raised |-> FALSE, ret |-> Returned("res"), next |-> <<>>,
          calls |-> Send(EffectiveStatus(e.f), UnknownResponse(e.f, r, env, now))]

----------------------------------------------------------------------------
(* Arguments of the builders *)

\* a JavaScript value of unknown type, tagged with its kind
Null == [t |-> "null"]

DataValues ==
    { Null,
      [t |-> "object", v |-> [id |-> "1", name |-> "John"]],
      [t |-> "array", v |-> <<[id |-> "1"], [id |-> "2"]>>] }

DataArrays ==
    { [t |-> "array", v |-> <<>>],
      [t |-> "array", v |-> <<[id |-> "1"], [id |-> "2"]>>] }

\* ValidationErrorItem[]
ValidationErrors ==
    { [t |-> "array", v |-> <<>>],
      [t |-> "array", v |-> <<[field |-> "email", message |-> "Invalid"]>>],
      [t |-> "array",
       v |-> <<[field |-> "email", message |-> "Invalid"],
               [field |-> "age", message |-> "Too young", min |-> "18"]>>] }

\* ValidationErrorItem[] | Record<string, unknown> | null
ErrorDetails ==
    { Null, [t |-> "object", v |-> [email |-> "Invalid format"]] }
    \cup { e \in ValidationErrors : Len(e.v) < 2 }

BuilderMessages == {"", "Created"}

BuilderStatusCodes == {0, 201, 404}

\* the extra metadata a caller passes: any of timestamp, requestId, version
ExtraMetas ==
    { t @@ r @@ v :
        t \in Optional("timestamp", {"2020-01-01T00:00:00.000Z"}),
        r \in Optional("requestId", {"abc-123"}),
        v \in Optional("version", {"v1"}) }

\* the argument lists of success(res, data, message?, statusCode?, meta?);
\* an omitted (or undefined) argument is an absent key
SuccessArgs ==
    { [data |-> d] @@ m @@ c @@ x :
        d \in DataValues,
        m \in Optional("message", BuilderMessages),
        c \in Optional("statusCode", BuilderStatusCodes),
        x \in Optional("meta", ExtraMetas) }

\* error(res, message?, statusCode?, errors?, meta?)
ErrorArgs ==
    { m @@ c @@ e @@ x :
        m \in Optional("message", BuilderMessages),
        c \in Optional("statusCode", BuilderStatusCodes),
        e \in Optional("errors", ErrorDetails),
        x \in Optional("meta", ExtraMetas) }

\* validationError(res, errors)
ValidationErrorArgs == { [errors |-> e] : e \in ValidationErrors }

\* PaginationInput
PaginationInputs ==
    [page : -1..MaxPage, limit : 1..MaxLimit, total : 0..MaxTotal]

\* paginated(res, data, pagination, message?)
PaginatedArgs ==
    { [data |-> d, pagination |-> p] @@ m :
        d \in DataArrays,
        p \in PaginationInputs,
        m \in Optional("message", BuilderMessages) }

\* generateMeta(additionalMeta?)
GenerateMetaArgs == Optional("additionalMeta", ExtraMetas)

\* an invocation that completed: the calls it made on res, and what it returned
Completed(calls) ==
    [raised |-> FALSE, ret |-> Returned("res"), next |-> <<>>, calls |-> calls]

----------------------------------------------------------------------------
(* success.ts *)

success(args, now) ==
    LET message == Default(args, "message", "Success")
        statusCode == Default(args, "statusCode", 200)
        meta == Default(args, "meta", EmptyObject)
        response == [success |-> TRUE,
                     statusCode |-> statusCode,
                     message |-> message,
                     data |-> args.data,
                     meta |-> generateMeta(meta, now)]
    IN  Completed(Send(statusCode, response))

----------------------------------------------------------------------------
(* paginate.ts *)

\* mutation: Math.floor in place of Math.ceil
CeilDiv_Floor(total, limit) == total \div limit

\* Math.ceil(total / limit) for total >= 0 and limit > 0
CeilDiv(total, limit) == (total + limit - 1) \div limit

\* mutation: hasNextPage is true on the last page too
paginated_NextInclusive(args, now) ==
    LET page == args.pagination.page
        limit == args.pagination.limit
        total == args.pagination.total
        message == Default(args, "message", "Success")
        totalPages == CeilDiv(total, limit)
        paginationOutput == [page |-> page,
                             limit |-> limit,
                             total |-> total,
                             totalPages |-> totalPages,
                             hasNextPage |-> page <= totalPages,
                             hasPrevPage |-> page > 1]
        response == [success |-> TRUE,
                     statusCode |-> 200,
                     message |-> message,
                     data |-> args.data,
                     pagination |-> paginationOutput,
                     meta |-> generateMeta(EmptyObject, now)]
    IN  Completed(Send(200, response))

paginated(args, now) ==
    LET page == args.pagination.page
        limit == args.pagination.limit
        total == args.pagination.total
        message == Default(args, "message", "Success")
        totalPages == CeilDiv(total, limit)
        paginationOutput == [page |-> page,
                             limit |-> limit,
                             total |-> total,
                             totalPages |-> totalPages,
                             hasNextPage |-> page < totalPages,
                             hasPrevPage |-> page > 1]
        response == [success |-> TRUE,
                     statusCode |-> 200,
                     message |-> message,
                     data |-> args.data,
                     pagination |-> paginationOutput,
                     meta |-> generateMeta(EmptyObject, now)]
    IN  Completed(Send(200, response))

----------------------------------------------------------------------------
(* validation.ts *)

\* mutation: an empty list of errors is left out of the body
validationError_OmitsEmpty(args, now) ==
    LET response == [success |-> FALSE,
                     statusCode |-> 422,
                     message |-> "Validation failed",
                     meta |-> generateMeta(EmptyObject, now)]
    IN  Completed(Send(422, IF args.errors.v = <<>> THEN response
                            ELSE response @@ ("errors" :> args.errors)))

validationError(args, now) ==
    LET response == [success |-> FALSE,
                     statusCode |-> 422,
                     message |-> "Validation failed",
                     errors |-> args.errors,
                     meta |-> generateMeta(EmptyObject, now)]
    IN  Completed(Send(422, response))

----------------------------------------------------------------------------
(* error.ts: the error builder *)

\* mutation: if (errors) written as a test for a non-empty value
IncludesErrors_NonEmpty(errors) ==
    /\ errors # Null
    /\ errors.t = "array" => errors.v # <<>>

\* if (errors !== null)
IncludesErrors(errors) == errors # Null

\* mutation: the status set on the response falls back to 500 for a
\* statusCode of 0, the body keeps the argument
error_StatusFallback(args, now) ==
    LET message == Default(args, "message", "An error occurred")
        statusCode == Default(args, "statusCode", 500)
        errors == Default(args, "errors", Null)
        meta == Default(args, "meta", EmptyObject)
        response == [success |-> FALSE,
                     statusCode |-> statusCode,
                     message |-> message,
                     meta |-> generateMeta(meta, now)]
    IN  Completed(Send(IF statusCode = 0 THEN 500 ELSE statusCode,
                       IF IncludesErrors(errors)
                       THEN response @@ ("errors" :> errors)
                       ELSE response))

error(args, now) ==
    LET message == Default(args, "message", "An error occurred")
        statusCode == Default(args, "statusCode", 500)
        errors == Default(args, "errors", Null)
        meta == Default(args, "meta", EmptyObject)
        response == [success |-> FALSE,
                     statusCode |-> statusCode,
                     message |-> message,
                     meta |-> generateMeta(meta, now)]
    IN  Completed(Send(statusCode,
                       IF IncludesErrors(errors)
                       THEN response @@ ("errors" :> errors)
                       ELSE response))

----------------------------------------------------------------------------
(* The state machine *)

NoCall == [fn |-> "none", args |-> EmptyObject]

Builders == {"success", "paginated", "validationError", "error"}

\* the operations a list of calls performs on the response object
Ops(calls) == [i \in 1..Len(calls) |-> calls[i].op]

\* globalErrorHandler() is called and the middleware registered
Init ==
    /\ nodeEnv \in NodeEnvs
    /\ clock = 0
    /\ pc = "idle"
    /\ err = NoFailure
    /\ req = NoRequest
    /\ sink = <<>>
    /\ ret = "none"
    /\ nextCalls = <<>>
    /\ raised = FALSE
    /\ call = NoCall
    /\ opLog = <<>>
    /\ builderCalls = 0
    /\ createdInProduction = IsProduction(nodeEnv)

\* a test harness or the deployment sets process.env.NODE_ENV between requests
SetNodeEnv ==
    /\ pc = "idle"
    /\ \E v \in NodeEnvs : v # nodeEnv /\ nodeEnv' = v
    /\ UNCHANGED <<clock, pc, err, req, sink, ret, nextCalls, raised,
                   call, opLog, builderCalls, createdInProduction>>

\* globalErrorHandler() is called again: a new middleware replaces the old one
CreateHandler ==
    /\ pc = "idle"
    /\ createdInProduction # IsProduction(nodeEnv)
    /\ createdInProduction' = IsProduction(nodeEnv)
    /\ UNCHANGED <<nodeEnv, clock, pc, err, req, sink, ret, nextCalls, raised,
                   call, opLog, builderCalls>>

\* time passes
Tick ==
    /\ pc = "idle"
    /\ clock < MaxClock
    /\ clock' = clock + 1
    /\ UNCHANGED <<nodeEnv, pc, err, req, sink, ret, nextCalls, raised,
                   call, opLog, builderCalls, createdInProduction>>

\* a route handler throws or forwards a failure while serving a request; an
\* AppError is made by one of its constructors, and call keeps the
\* construction until the middleware is invoked
Throw ==
    /\ pc = "idle"
    /\ \/ \E c \in Constructions : err' = Construct(c) /\ call' = c
       \/ \E e \in UnknownFailures \cup NullishFailures :
             err' = e /\ call' = NoCall
    /\ \E r \in Requests : req' = r
    /\ pc' = "thrown"
    /\ UNCHANGED <<nodeEnv, clock, sink, ret, nextCalls, raised,
                   opLog, builderCalls, createdInProduction>>

\* mutation: a middleware created in production stays in production mode
ModeRead_Latched ==
    IF createdInProduction THEN "production" ELSE nodeEnv

\* mutation: the mode is read once, when globalErrorHandler() is called
ModeRead_AtCreation ==
    IF createdInProduction THEN "production" ELSE "development"

\* process.env.NODE_ENV as the middleware reads it: inside the returned
\* function, at each invocation
ModeRead == nodeEnv

\* the invocation out of fn leaves its calls on the response object
Invoke(fn, args, out) ==
    /\ call' = [fn |-> fn, args |-> args]
    /\ sink' = out.calls
    /\ opLog' = opLog \o Ops(out.calls)
    /\ ret' = out.ret
    /\ nextCalls' = nextCalls \o out.next
    /\ raised' = out.raised
    /\ pc' = "done"

\* the host framework invokes the middleware with the failure, the request,
\* the response and the continuation
HandleError ==
    /\ pc = "thrown"
    /\ Invoke("handler", EmptyObject, ErrorHandler(err, req, ModeRead, clock))
    /\ UNCHANGED <<nodeEnv, clock, err, req, builderCalls, createdInProduction>>

\* route code calls a builder on the response object
CallSuccess ==
    /\ pc = "idle"
    /\ builderCalls < MaxInvocations
    /\ \E args \in SuccessArgs : Invoke("success", args, success(args, clock))
    /\ builderCalls' = builderCalls + 1
    /\ UNCHANGED <<nodeEnv, clock, err, req, createdInProduction>>

CallPaginated ==
    /\ pc = "idle"
    /\ builderCalls < MaxInvocations
    /\ \E args \in PaginatedArgs : Invoke("paginated", args, paginated(args, clock))
    /\ builderCalls' = builderCalls + 1
    /\ UNCHANGED <<nodeEnv, clock, err, req, createdInProduction>>

CallValidationError ==
    /\ pc = "idle"
    /\ builderCalls < MaxInvocations
    /\ \E args \in ValidationErrorArgs :
          Invoke("validationError", args, validationError(args, clock))
    /\ builderCalls' = builderCalls + 1
    /\ UNCHANGED <<nodeEnv, clock, err, req, createdInProduction>>

CallError ==
    /\ pc = "idle"
    /\ builderCalls < MaxInvocations
    /\ \E args \in ErrorArgs : Invoke("error", args, error(args, clock))
    /\ builderCalls' = builderCalls + 1
    /\ UNCHANGED <<nodeEnv, clock, err, req, createdInProduction>>

\* route code calls generateMeta directly; the response object is not touched
CallGenerateMeta ==
    /\ pc = "idle"
    /\ \E args \in GenerateMetaArgs :
          /\ call' = [fn |-> "generateMeta", args |-> args]
          /\ ret' = generateMeta(Default(args, "additionalMeta", EmptyObject), clock)
    /\ pc' = "done"
    /\ UNCHANGED <<nodeEnv, clock, err, req, sink, nextCalls, raised,
                   opLog, builderCalls, createdInProduction>>

\* a builder or generateMeta returns to the route code, which goes on with
\* the same response object
Return ==
    /\ pc = "done"
    /\ call.fn # "handler"
    /\ pc' = "idle"
    /\ call' = NoCall
    /\ sink' = <<>>
    /\ ret' = "none"
    /\ UNCHANGED <<nodeEnv, clock, err, req, nextCalls, raised,
                   opLog, builderCalls, createdInProduction>>

\* the request is over; the next one starts with a fresh response object
NextRequest ==
    /\ pc = "done"
    /\ pc' = "idle"
    /\ err' = NoFailure
    /\ req' = NoRequest
    /\ call' = NoCall
    /\ sink' = <<>>
    /\ opLog' = <<>>
    /\ builderCalls' = 0
    /\ ret' = "none"
    /\ raised' = FALSE
    /\ UNCHANGED <<nodeEnv, clock, nextCalls, createdInProduction>>

Next ==
    \/ SetNodeEnv
    \/ CreateHandler
    \/ Tick
    \/ Throw
    \/ HandleError
    \/ CallSuccess
    \/ CallPaginated
    \/ CallValidationError
    \/ CallError
    \/ CallGenerateMeta
    \/ Return
    \/ NextRequest

Spec == Init /\ [][Next]_vars

----------------------------------------------------------------------------
(* What one invocation left on the response object *)

\* the middleware has run
Handled == pc = "done" /\ call.fn = "handler"

\* the middleware has run and sent an envelope
Sent == Handled /\ ~raised

\* the argument of the status call and of the json call
Status == sink[1].arg

Body == sink[2].arg

\* exactly one status call followed by one json call
OneEnvelope ==
    /\ Len(sink) = 2
    /\ sink[1].op = "status"
    /\ sink[2].op = "json"

\* the failure is an object (or primitive) that is not an AppError instance
UnknownFailure == err.kind = "Error"

CarriesStatusCode == "statusCode" \in DOMAIN err.f

CarriesMessage == "message" \in DOMAIN err.f /\ err.f.message # ""

CarriesStack == "stack" \in DOMAIN err.f /\ err.f.stack # ""

----------------------------------------------------------------------------
(* C1 *)

\* C1: an AppError with status S, code C and message M is answered, in every
\* deployment mode, with status S and a body with success = false,
\* statusCode = S, code = C and message = M; a 500 AppError handled in
\* production keeps its message.
C1_AppErrorVerbatim ==
    (Handled /\ err.kind = "AppError") =>
        /\ ~raised
        /\ OneEnvelope
        /\ Status = err.f.statusCode
        /\ Body.success = FALSE
        /\ Body.statusCode = err.f.statusCode
        /\ Body.code = err.f.code
        /\ Body.message = err.f.message

C1_Witness ==
    /\ Sent
    /\ err.kind = "AppError"
    /\ nodeEnv = "production"
    /\ err.f.statusCode = 500
    /\ err.f.message = "Sensitive details"
    /\ Body.message = "Sensitive details"

----------------------------------------------------------------------------
(* C2 *)

\* C2: a failure object that is not an AppError and carries no statusCode,
\* handled in production, is answered with status 500, statusCode = 500,
\* message "Internal server error", code "INTERNAL_ERROR" and no stack field,
\* whatever message and stack it carried.
C2_ProductionRedaction ==
    (Handled /\ UnknownFailure /\ ~CarriesStatusCode
        /\ nodeEnv = "production") =>
        /\ ~raised
        /\ OneEnvelope
        /\ Status = 500
        /\ Body.statusCode = 500
        /\ Body.message = "Internal server error"
        /\ Body.code = "INTERNAL_ERROR"
        /\ "stack" \notin DOMAIN Body

C2_Witness ==
    /\ Sent
    /\ UnknownFailure
    /\ ~CarriesStatusCode
    /\ nodeEnv = "production"
    /\ CarriesStack
    /\ CarriesMessage
    /\ err.f.message = "Sensitive details"
    /\ Body.message = "Internal server error"

----------------------------------------------------------------------------
(* C3 *)

\* C3 as stated: an unknown failure carrying an explicit statusCode other
\* than 500, handled in production, is answered with that status code (on
\* the sink and in the body) and with its own message.
C3_Original ==
    (Sent /\ UnknownFailure /\ CarriesStatusCode /\ err.f.statusCode # 500
        /\ nodeEnv = "production") =>
        /\ Status = err.f.statusCode
        /\ Body.statusCode = err.f.statusCode
        /\ "message" \in DOMAIN err.f => Body.message = err.f.message

\* C3 amended: an unknown failure carrying an explicit statusCode other than
\* 500 and other than 0, handled in production, is answered with that status
\* code (on the sink and in the body) and with its own message when that
\* message is not empty, and with "An unexpected error occurred" when the
\* message is absent or empty; a statusCode of 0 counts as no statusCode
\* (status 500, message "Internal server error").
C3_NonZeroStatusPreserved ==
    (Handled /\ UnknownFailure /\ CarriesStatusCode
        /\ err.f.statusCode # 500 /\ nodeEnv = "production") =>
        /\ ~raised
        /\ OneEnvelope
        /\ err.f.statusCode # 0 =>
             /\ Status = err.f.statusCode
             /\ Body.statusCode = err.f.statusCode
             /\ CarriesMessage => Body.message = err.f.message
             /\ ~CarriesMessage => Body.message = "An unexpected error occurred"
        /\ err.f.statusCode = 0 =>
             /\ Status = 500
             /\ Body.statusCode = 500
             /\ Body.message = "Internal server error"

C3_Witness ==
    /\ Sent
    /\ UnknownFailure
    /\ nodeEnv = "production"
    /\ CarriesStatusCode
    /\ err.f.statusCode = 404
    /\ Status = 404
    /\ CarriesMessage
    /\ Body.message = "Sensitive details"

----------------------------------------------------------------------------
(* C4 *)

\* C4: an unknown failure object handled outside production is answered with
\* its own message when it has one and with "An unexpected error occurred"
\* when the message is absent or empty; the body has a stack field exactly
\* when the failure carried a (non-empty) stack, and that field equals it.
C4_DevelopmentDisclosure ==
    (Handled /\ UnknownFailure /\ nodeEnv # "production") =>
        /\ ~raised
        /\ OneEnvelope
        /\ CarriesMessage => Body.message = err.f.message
        /\ ~CarriesMessage => Body.message = "An unexpected error occurred"
        /\ "stack" \in DOMAIN Body <=> CarriesStack
        /\ CarriesStack => Body.stack = err.f.stack

C4_Witness ==
    /\ Sent
    /\ UnknownFailure
    /\ nodeEnv = "test"
    /\ ~CarriesMessage
    /\ Body.message = "An unexpected error occurred"
    /\ CarriesStack
    /\ "stack" \in DOMAIN Body

----------------------------------------------------------------------------
(* C5 *)

\* what the middleware sends for the same failure, request and instant when
\* the deployment mode is env
SentUnder(env) == ErrorHandler(err, req, env, clock).calls

WithoutStack(calls) ==
    <<calls[1],
      [op |-> calls[2].op,
       arg |-> [k \in DOMAIN calls[2].arg \ {"stack"} |-> calls[2].arg[k]]]>>

\* 500-class: the effective status is one of 500..599
ServerErrorClass == EffectiveStatus(err.f) >= 500 /\ EffectiveStatus(err.f) < 600

\* C5 as stated: for every AppError and every unknown failure whose
\* effective status is not 500-class, the status and the body are the same
\* in production and in every other mode.
C5_Original ==
    (Sent /\ (err.kind = "AppError" \/ ~ServerErrorClass)) =>
        \A env \in NodeEnvs : SentUnder(env) = sink

\* C5 amended: for every AppError and every unknown failure whose effective
\* status is not 500-class, the status and the body apart from the stack
\* field are the same in production and in every other mode, and they are
\* the same altogether when the failure is an AppError or carries no stack;
\* the stack of an unknown failure is left out in production whatever its
\* status.
C5_ModesDifferInStackOnly ==
    (Sent /\ (err.kind = "AppError" \/ ~ServerErrorClass)) =>
        \A env \in NodeEnvs :
            /\ WithoutStack(SentUnder(env)) = WithoutStack(sink)
            /\ (err.kind = "AppError" \/ ~CarriesStack) => SentUnder(env) = sink
            /\ env = "production" => "stack" \notin DOMAIN SentUnder(env)[2].arg

C5_Witness ==
    /\ Sent
    /\ UnknownFailure
    /\ EffectiveStatus(err.f) = 404
    /\ CarriesStack
    /\ CarriesMessage
    /\ nodeEnv = "development"
    /\ "stack" \in DOMAIN Body
    /\ "stack" \notin DOMAIN SentUnder("production")[2].arg
    /\ SentUnder("production")[2].arg.message = Body.message

----------------------------------------------------------------------------
(* C6 *)

\* C6: for any failure value handed to the middleware (an AppError, any
\* other error object, or any other thrown value, including one without any
\* field) one invocation never raises and leaves exactly one well-formed
\* error envelope on the sink: one status call, then one body with
\* success = false, statusCode, message and meta.
C6_NeverRaises ==
    Handled =>
        /\ ~raised
        /\ OneEnvelope
        /\ {"success", "statusCode", "message", "meta"} \subseteq DOMAIN Body
        /\ Body.success = FALSE
        /\ Body.statusCode = Status
        /\ "timestamp" \in DOMAIN Body.meta

----------------------------------------------------------------------------
(* C7 *)

HasRequestId == "requestId" \in DOMAIN req

HasHeader == "x-request-id" \in DOMAIN req.headers

\* C7 as stated: when the request carries both a requestId field and an
\* x-request-id header, meta.requestId is the request-level requestId.
C7_Original ==
    (Sent /\ HasRequestId /\ HasHeader) =>
        /\ "requestId" \in DOMAIN Body.meta
        /\ Body.meta.requestId = req.requestId

\* C7 amended: when the request carries both a non-empty requestId field and
\* an x-request-id header, meta.requestId of every envelope the middleware
\* sends is the request-level requestId, never the header value, for every
\* kind of failure and every deployment mode; an empty requestId counts as
\* absent, and the header, when it is a non-empty string, is used instead.
C7_RequestIdWins ==
    (Sent /\ HasRequestId /\ HasHeader) =>
        /\ req.requestId # "" =>
             /\ "requestId" \in DOMAIN Body.meta
             /\ Body.meta.requestId = req.requestId
        /\ (req.requestId = "" /\ req.headers["x-request-id"].typeof = "string"
               /\ req.headers["x-request-id"].v # <<"">>) =>
             /\ "requestId" \in DOMAIN Body.meta
             /\ <<Body.meta.requestId>> = req.headers["x-request-id"].v

C7_Witness ==
    /\ Sent
    /\ UnknownFailure
    /\ nodeEnv = "production"
    /\ HasRequestId
    /\ req.requestId = "req-123"
    /\ HasHeader
    /\ req.headers["x-request-id"] = [typeof |-> "string", v |-> <<"header-123">>]
    /\ Body.meta.requestId = "req-123"

----------------------------------------------------------------------------
(* C8 *)

\* the value attached as meta.requestId, tagged like a header value
AttachedRequestId == [typeof |-> "string", v |-> <<Body.meta.requestId>>]

\* C8 as stated: when the request has no requestId and the header map has an
\* x-request-id entry, that entry's value is attached as meta.requestId,
\* whether the entry is a string or a sequence of strings.
C8_Original ==
    (Sent /\ ~HasRequestId /\ HasHeader) =>
        /\ "requestId" \in DOMAIN Body.meta
        /\ AttachedRequestId = req.headers["x-request-id"]

\* C8 amended: when the request has no requestId and the x-request-id entry
\* of the header map is a non-empty string, that string is attached as
\* meta.requestId; an entry that is a sequence of strings, or the empty
\* string, is ignored and no requestId is attached.
C8_StringHeaderAttached ==
    (Sent /\ ~HasRequestId /\ HasHeader) =>
        IF /\ req.headers["x-request-id"].typeof = "string"
           /\ req.headers["x-request-id"].v # <<"">>
        THEN /\ "requestId" \in DOMAIN Body.meta
             /\ AttachedRequestId = req.headers["x-request-id"]
        ELSE "requestId" \notin DOMAIN Body.meta

C8_Witness ==
    /\ Sent
    /\ ~HasRequestId
    /\ HasHeader
    /\ req.headers["x-request-id"] = [typeof |-> "string", v |-> <<"header-123">>]
    /\ Body.meta.requestId = "header-123"

----------------------------------------------------------------------------
(* C9 *)

\* C9: when the request has neither a requestId field nor an x-request-id
\* header, the meta of the envelope has no requestId key: it holds the
\* timestamp only, for every kind of failure and every deployment mode.
C9_NoCorrelationId ==
    (Sent /\ ~HasRequestId /\ ~HasHeader) =>
        DOMAIN Body.meta = {"timestamp"}

C9_Witness ==
    /\ Sent
    /\ err.kind = "AppError"
    /\ ~HasRequestId
    /\ ~HasHeader
    /\ "requestId" \notin DOMAIN Body.meta
    /\ Body.meta.timestamp = ToISOString(clock)

----------------------------------------------------------------------------
(* C10 *)

\* C10: the middleware is a terminal consumer: in no invocation, for any
\* failure, request or deployment mode, is the continuation (next) called.
C10_NeverCallsNext == nextCalls = <<>>

C10_Witness ==
    /\ Handled
    /\ UnknownFailure
    /\ OneEnvelope
    /\ nextCalls = <<>>

----------------------------------------------------------------------------
(* What a builder invocation left *)

\* a builder has run on the response object
Built == pc = "done" /\ call.fn \in Builders

BuiltBy(fn) == pc = "done" /\ call.fn = fn

\* an envelope is on the sink, sent by a builder or by the middleware
Enveloped == Built \/ Sent

----------------------------------------------------------------------------
(* C11 *)

\* C11: the deployment mode is read at each handling, not when the
\* middleware is created: whatever the mode was when globalErrorHandler()
\* ran and whatever it was for earlier requests, an unknown failure is
\* answered under the policy of the mode in force at its own handling:
\* redacted (for status 500) and without stack in production, disclosed
\* with its stack in every other mode.
C11_ModeReadAtHandling ==
    (Sent /\ UnknownFailure) =>
        /\ (nodeEnv = "production" /\ Status = 500) =>
             Body.message = "Internal server error"
        /\ nodeEnv = "production" => "stack" \notin DOMAIN Body
        /\ (nodeEnv # "production" /\ CarriesMessage) =>
             Body.message = err.f.message
        /\ (nodeEnv # "production" /\ CarriesStack) =>
             ("stack" \in DOMAIN Body /\ Body.stack = err.f.stack)

\* created in development, mode then set to production: redacted
C11_Witness ==
    /\ Sent
    /\ UnknownFailure
    /\ ~createdInProduction
    /\ nodeEnv = "production"
    /\ ~CarriesStatusCode
    /\ CarriesStack
    /\ CarriesMessage
    /\ err.f.message = "Sensitive details"
    /\ Body.message = "Internal server error"
    /\ "stack" \notin DOMAIN Body

----------------------------------------------------------------------------
(* C12 *)

\* C12: the production policy applies exactly when the mode is the string
\* "production": an unknown failure's stack is withheld if and only if the
\* mode is "production", and the message of a status-500 unknown failure is
\* replaced if and only if the mode is "production"; "Production", "prod",
\* "test", "development" and an unset mode all disclose.
C12_ExactlyProduction ==
    (Sent /\ UnknownFailure) =>
        /\ CarriesStack =>
             ("stack" \notin DOMAIN Body <=> nodeEnv = "production")
        /\ (CarriesMessage /\ Status = 500
               /\ err.f.message # "Internal server error") =>
             (Body.message # err.f.message <=> nodeEnv = "production")
        /\ (CarriesMessage /\ nodeEnv \in NodeEnvs \ {"production"}) =>
             Body.message = err.f.message

C12_Witness ==
    /\ Sent
    /\ UnknownFailure
    /\ nodeEnv = "Production"
    /\ Status = 500
    /\ CarriesStack
    /\ "stack" \in DOMAIN Body
    /\ CarriesMessage
    /\ err.f.message = "Sensitive details"
    /\ Body.message = "Sensitive details"

----------------------------------------------------------------------------
(* C13 *)

\* C13 as stated: the effective status of an unknown failure is its
\* statusCode whenever it carries one, 0 included, and 500 only when it
\* carries none; it is set on the sink and written to body.statusCode.
C13_Original ==
    (Sent /\ UnknownFailure) =>
        /\ Status = (IF CarriesStatusCode THEN err.f.statusCode ELSE 500)
        /\ Body.statusCode = Status

\* C13 amended: the effective status of an unknown failure is its statusCode
\* whenever it carries one other than 0, and 500 when it carries none or
\* carries 0; it is set on the sink and written to body.statusCode.
C13_EffectiveStatus ==
    (Sent /\ UnknownFailure) =>
        /\ Status = (IF CarriesStatusCode /\ err.f.statusCode # 0
                     THEN err.f.statusCode ELSE 500)
        /\ Body.statusCode = Status

C13_Witness ==
    /\ Sent
    /\ UnknownFailure
    /\ CarriesStatusCode
    /\ err.f.statusCode = 503
    /\ Status = 503
    /\ Body.statusCode = 503

----------------------------------------------------------------------------
(* C14 *)

\* C14: the envelope of an unknown failure has code "INTERNAL_ERROR" in
\* every mode and for every status, whatever code the failure carries.
C14_CodeFixed ==
    (Sent /\ UnknownFailure) => Body.code = "INTERNAL_ERROR"

C14_Witness ==
    /\ Sent
    /\ UnknownFailure
    /\ "code" \in DOMAIN err.f
    /\ err.f.code = "USER_NOT_FOUND"
    /\ Status = 404
    /\ nodeEnv = "production"
    /\ Body.code = "INTERNAL_ERROR"

----------------------------------------------------------------------------
(* C15 *)

Alternating(log) ==
    \A i \in 1..Len(log) : log[i] = (IF i % 2 = 1 THEN "status" ELSE "json")

\* C15: every builder invocation makes exactly one status call and then one
\* body call on the sink and no other call; after n builder invocations on a
\* response object it has received n status and n body calls, alternating
\* status, body.
C15_StatusThenBody ==
    /\ Built => OneEnvelope
    /\ (pc = "idle" \/ Built) =>
         /\ Len(opLog) = 2 * builderCalls
         /\ Alternating(opLog)

C15_Witness ==
    /\ BuiltBy("error")
    /\ builderCalls = 2
    /\ opLog = <<"status", "json", "status", "json">>
    /\ OneEnvelope

----------------------------------------------------------------------------
(* C16 *)

\* C16: on a chainable sink every builder, and the middleware whenever it
\* returns, returns the response object it was given.
C16_ReturnsSink ==
    Enveloped => ret = "res"

C16_Witness ==
    /\ BuiltBy("paginated")
    /\ OneEnvelope
    /\ ret = "res"

----------------------------------------------------------------------------
(* C17 *)

\* C17: the success flag and the fixed fields depend on the builder only:
\* success and paginated send success = true; validationError, error and
\* the middleware send success = false; paginated sends status 200 and
\* statusCode 200; validationError sends status 422, statusCode 422,
\* message "Validation failed" and an errors field, also for an empty list.
C17_FixedFields ==
    /\ BuiltBy("success") => Body.success = TRUE
    /\ BuiltBy("paginated") =>
         /\ Body.success = TRUE
         /\ Status = 200
         /\ Body.statusCode = 200
    /\ BuiltBy("validationError") =>
         /\ Body.success = FALSE
         /\ Status = 422
         /\ Body.statusCode = 422
         /\ Body.message = "Validation failed"
         /\ "errors" \in DOMAIN Body
         /\ Body.errors = call.args.errors
    /\ BuiltBy("error") => Body.success = FALSE
    /\ Sent => Body.success = FALSE

C17_Witness ==
    /\ BuiltBy("validationError")
    /\ call.args.errors.v = <<>>
    /\ Status = 422
    /\ "errors" \in DOMAIN Body
    /\ Body.errors.v = <<>>

----------------------------------------------------------------------------
(* C18 *)

\* C18: every envelope sent by a builder or by the middleware has a meta
\* field, and that meta has a timestamp key, whatever extra metadata the
\* caller supplied.
C18_MetaHasTimestamp ==
    Enveloped =>
        /\ "meta" \in DOMAIN Body
        /\ "timestamp" \in DOMAIN Body.meta

C18_Witness ==
    /\ BuiltBy("success")
    /\ "meta" \in DOMAIN call.args
    /\ DOMAIN call.args.meta = {"requestId"}
    /\ Body.meta.timestamp = ToISOString(clock)

----------------------------------------------------------------------------
(* C19 *)

\* the result is the permissive merge of extra over the generated timestamp
MergedFrom(meta, extra) ==
    /\ DOMAIN meta = {"timestamp"} \cup DOMAIN extra
    /\ \A k \in DOMAIN extra : meta[k] = extra[k]
    /\ "timestamp" \notin DOMAIN extra => meta.timestamp = ToISOString(clock)

\* the extra metadata passed under key k, {} when omitted
ExtraPassed(k) == IF k \in DOMAIN call.args THEN call.args[k] ELSE EmptyObject

\* C19: generateMeta(extra) returns a record whose keys are timestamp plus
\* the keys of extra, every key of extra with extra's value; the generated
\* timestamp is used only when extra has no timestamp key, and a timestamp
\* supplied by the caller replaces it.  The same holds of the meta of the
\* envelopes of success and error for the extra metadata passed to them.
C19_PermissiveMerge ==
    /\ BuiltBy("generateMeta") => MergedFrom(ret, ExtraPassed("additionalMeta"))
    /\ BuiltBy("success") => MergedFrom(Body.meta, ExtraPassed("meta"))
    /\ BuiltBy("error") => MergedFrom(Body.meta, ExtraPassed("meta"))

C19_Witness ==
    /\ BuiltBy("generateMeta")
    /\ "additionalMeta" \in DOMAIN call.args
    /\ DOMAIN call.args.additionalMeta = {"timestamp", "version"}
    /\ ret.timestamp = "2020-01-01T00:00:00.000Z"
    /\ ret.timestamp # ToISOString(clock)
    /\ ret.version = "v1"

----------------------------------------------------------------------------
(* C20 *)

\* the errors argument was given and is not null
ErrorsGiven == "errors" \in DOMAIN call.args /\ call.args.errors.t # "null"

\* C20: the envelope sent by error has an errors field if and only if the
\* errors argument is non-null; the field then equals the argument (an
\* array, an empty array or an object); for a null or omitted argument the
\* key is absent from the body.
C20_ErrorsIffNonNull ==
    BuiltBy("error") =>
        /\ "errors" \in DOMAIN Body <=> ErrorsGiven
        /\ ErrorsGiven => Body.errors = call.args.errors

C20_Witness ==
    /\ BuiltBy("error")
    /\ ErrorsGiven
    /\ call.args.errors.t = "array"
    /\ call.args.errors.v = <<>>
    /\ "errors" \in DOMAIN Body
    /\ Body.errors.v = <<>>

----------------------------------------------------------------------------
(* C21 *)

\* the pagination argument of the invocation and the block of the body
PaginationGiven == call.args.pagination

PaginationSent == Body.pagination

\* n is the least integer with n * limit >= total, the ceiling of total / limit
IsCeiling(n, total, limit) ==
    /\ n * limit >= total
    /\ (n - 1) * limit < total

\* C21 as stated: for every integer page, total >= 0 and limit > 0 the
\* pagination block sent by paginated echoes page, limit and total, and has
\* totalPages = ceil(total / limit), hasNextPage = (page < totalPages) and
\* hasPrevPage = (page > 1); total = 0 gives totalPages = 0 and
\* hasNextPage = false for every page, and page = totalPages gives
\* hasNextPage = false.
C21_Original ==
    BuiltBy("paginated") =>
        /\ PaginationSent.page = PaginationGiven.page
        /\ PaginationSent.limit = PaginationGiven.limit
        /\ PaginationSent.total = PaginationGiven.total
        /\ IsCeiling(PaginationSent.totalPages,
                     PaginationGiven.total, PaginationGiven.limit)
        /\ PaginationSent.hasNextPage =
             (PaginationGiven.page < PaginationSent.totalPages)
        /\ PaginationSent.hasPrevPage = (PaginationGiven.page > 1)
        /\ PaginationGiven.total = 0 =>
             /\ PaginationSent.totalPages = 0
             /\ PaginationSent.hasNextPage = FALSE
        /\ PaginationGiven.page = PaginationSent.totalPages =>
             PaginationSent.hasNextPage = FALSE

\* C21 amended: the same block for every integer page, total >= 0 and
\* limit > 0; total = 0 gives totalPages = 0 for every page, and
\* hasNextPage = false exactly for the pages >= 0: a negative page of an
\* empty result has hasNextPage = true; page = totalPages gives
\* hasNextPage = false.
C21_PaginationBlock ==
    BuiltBy("paginated") =>
        /\ DOMAIN PaginationSent =
             {"page", "limit", "total", "totalPages", "hasNextPage", "hasPrevPage"}
        /\ PaginationSent.page = PaginationGiven.page
        /\ PaginationSent.limit = PaginationGiven.limit
        /\ PaginationSent.total = PaginationGiven.total
        /\ IsCeiling(PaginationSent.totalPages,
                     PaginationGiven.total, PaginationGiven.limit)
        /\ PaginationSent.hasNextPage =
             (PaginationGiven.page < PaginationSent.totalPages)
        /\ PaginationSent.hasPrevPage = (PaginationGiven.page > 1)
        /\ PaginationGiven.total = 0 =>
             /\ PaginationSent.totalPages = 0
             /\ PaginationSent.hasNextPage = (PaginationGiven.page < 0)
        /\ PaginationGiven.page = PaginationSent.totalPages =>
             PaginationSent.hasNextPage = FALSE

\* 3 items in pages of 2: the last page is page 2, and it is not full
C21_Witness ==
    /\ BuiltBy("paginated")
    /\ PaginationGiven = [page |-> 2, limit |-> 2, total |-> 3]
    /\ PaginationSent.totalPages = 2
    /\ PaginationSent.hasNextPage = FALSE
    /\ PaginationSent.hasPrevPage = TRUE

----------------------------------------------------------------------------
(* C22 *)

\* an AppError has just been made by the construction kept in call
Constructed == pc = "thrown" /\ err.kind = "AppError"

ConstructedBy(fn) == Constructed /\ call.fn = fn

\* C22: every AppError, made by the primary constructor or by a named
\* constructor with any arguments, has isOperational = true; the primary
\* constructor called with a message only yields statusCode 500 and code
\* "INTERNAL_ERROR", and called with (message, statusCode, code) yields
\* exactly those three values.
C22_Operational ==
    /\ err.kind = "AppError" => err.f.isOperational = TRUE
    /\ Constructed => call.fn \in {"new"} \cup NamedConstructors
    /\ ConstructedBy("new") =>
         /\ err.f.message = call.args.message
         /\ DOMAIN call.args = {"message"} =>
              /\ err.f.statusCode = 500
              /\ err.f.code = "INTERNAL_ERROR"
         /\ DOMAIN call.args = {"message", "statusCode", "code"} =>
              /\ err.f.statusCode = call.args.statusCode
              /\ err.f.code = call.args.code

\* new AppError("Sensitive details", 503, "USER_NOT_FOUND")
C22_Witness ==
    /\ ConstructedBy("new")
    /\ call.args = [message |-> "Sensitive details", statusCode |-> 503,
                    code |-> "USER_NOT_FOUND"]
    /\ err.f.statusCode = 503
    /\ err.f.code = "USER_NOT_FOUND"
    /\ err.f.message = "Sensitive details"
    /\ err.f.isOperational = TRUE

----------------------------------------------------------------------------
(* C23 *)

\* the status, the default code and the default message of each named
\* constructor
FixedStatus(fn) ==
    CASE fn = "badRequest" -> 400
      [] fn = "unauthorized" -> 401
      [] fn = "forbidden" -> 403
      [] fn = "notFound" -> 404
      [] fn = "conflict" -> 409
      [] fn = "internal" -> 500

DefaultCode(fn) ==
    CASE fn = "badRequest" -> "BAD_REQUEST"
      [] fn = "unauthorized" -> "UNAUTHORIZED"
      [] fn = "forbidden" -> "FORBIDDEN"
      [] fn = "notFound" -> "NOT_FOUND"
      [] fn = "conflict" -> "CONFLICT"
      [] fn = "internal" -> "INTERNAL_ERROR"

\* badRequest and conflict have no default message
DefaultMessage(fn) ==
    CASE fn = "unauthorized" -> "Unauthorized"
      [] fn = "forbidden" -> "Forbidden"
      [] fn = "notFound" -> "Resource not found"
      [] fn = "internal" -> "Internal server error"

\* C23: each named constructor yields what the primary constructor yields
\* for its fixed status (badRequest 400, unauthorized 401, forbidden 403,
\* notFound 404, conflict 409, internal 500), with the caller's message and
\* code when they are supplied and the constructor's default message and
\* code otherwise; no argument changes the status code.
C23_NamedConstructors ==
    \A fn \in NamedConstructors :
        ConstructedBy(fn) =>
            LET message == IF "message" \in DOMAIN call.args
                           THEN call.args.message ELSE DefaultMessage(fn)
                code == IF "code" \in DOMAIN call.args
                        THEN call.args.code ELSE DefaultCode(fn)
            IN  /\ err.f.statusCode = FixedStatus(fn)
                /\ err.f.code = code
                /\ err.f.message = message
                /\ err = AppError([message |-> message,
                                   statusCode |-> FixedStatus(fn),
                                   code |-> code])

\* AppError.unauthorized(undefined, "USER_NOT_FOUND"): the default message,
\* the caller's code, status 401
C23_Witness ==
    /\ ConstructedBy("unauthorized")
    /\ DOMAIN call.args = {"code"}
    /\ call.args.code = "USER_NOT_FOUND"
    /\ err.f.statusCode = 401
    /\ err.f.code = "USER_NOT_FOUND"
    /\ err.f.message = "Unauthorized"

----------------------------------------------------------------------------
(* C24 *)

\* the calls without the timestamp of the body's meta
WithoutTimestamp(calls) ==
    <<calls[1],
      [op |-> calls[2].op,
       arg |-> [k \in DOMAIN calls[2].arg |->
                  IF k = "meta"
                  THEN [m \in DOMAIN calls[2].arg.meta \ {"timestamp"} |->
                          calls[2].arg.meta[m]]
                  ELSE calls[2].arg[k]]]>>

\* what the invocation kept in call sends when it is made at instant t on a
\* fresh response object, with no invocation before it
SentAfresh(t) ==
    CASE call.fn = "success" -> success(call.args, t).calls
      [] call.fn = "paginated" -> paginated(call.args, t).calls
      [] call.fn = "validationError" -> validationError(call.args, t).calls
      [] call.fn = "error" -> error(call.args, t).calls
      [] call.fn = "handler" -> ErrorHandler(err, req, nodeEnv, t).calls

\* the status and the body are those of the same invocation made afresh,
\* at any instant
SameAsAfresh ==
    Enveloped =>
        /\ Len(sink) = 2
        /\ \A t \in 0..MaxClock :
             WithoutTimestamp(sink) = WithoutTimestamp(SentAfresh(t))

\* a step that ends an invocation leaves the deployment mode as it was
ModeKept == pc' = "done" => nodeEnv' = nodeEnv

----------------------------------------------------------------------------
(* C25 *)

\* C25: in production mode no envelope sent by the middleware has a stack
\* field, whatever the failure: an AppError, an unknown failure with
\* effective status 500, or an unknown failure with another status, whose
\* message is preserved.
C25_NoStackInProduction ==
    (Sent /\ nodeEnv = "production") => "stack" \notin DOMAIN Body

\* a 404 unknown failure in production: the message is kept, the stack is not
C25_Witness ==
    /\ Sent
    /\ nodeEnv = "production"
    /\ UnknownFailure
    /\ CarriesStack
    /\ CarriesMessage
    /\ Status = 404
    /\ Body.message = err.f.message
    /\ "stack" \notin DOMAIN Body

----------------------------------------------------------------------------
(* C26 *)

\* the objects f and g differ at most in their message and stack
SameButMessageAndStack(f, g) ==
    \A k \in {"statusCode", "code"} :
        /\ k \in DOMAIN f <=> k \in DOMAIN g
        /\ k \in DOMAIN f => f[k] = g[k]

\* C26: in production mode the envelope of an unknown failure with
\* effective status 500 does not depend on the failure's message or stack:
\* every unknown failure that differs from it only in message and stack,
\* handled with the same request, gets the same status and the same body
\* apart from meta.timestamp.
C26_RedactedIndependent ==
    (Sent /\ UnknownFailure /\ nodeEnv = "production" /\ Status = 500) =>
        \A o \in ErrorObjects :
            SameButMessageAndStack(o, err.f) =>
                \A t \in 0..MaxClock :
                    WithoutTimestamp(
                        ErrorHandler([kind |-> "Error", f |-> o],
                                     req, nodeEnv, t).calls)
                      = WithoutTimestamp(sink)

\* a failure with statusCode 0, a message and a stack, in production
C26_Witness ==
    /\ Sent
    /\ UnknownFailure
    /\ nodeEnv = "production"
    /\ CarriesStatusCode
    /\ err.f.statusCode = 0
    /\ Status = 500
    /\ CarriesMessage
    /\ err.f.message = "Sensitive details"
    /\ CarriesStack
    /\ Body.message = "Internal server error"
    /\ "stack" \notin DOMAIN Body

----------------------------------------------------------------------------
(* C27 *)

\* C27: the envelope sent for an AppError has no stack field in any
\* deployment mode, although every AppError carries the stack captured at
\* its construction; an envelope with a stack field was sent for an unknown
\* failure.
C27_NoStackForAppError ==
    /\ (Sent /\ err.kind = "AppError") =>
         /\ CarriesStack
         /\ "stack" \notin DOMAIN Body
    /\ (Sent /\ "stack" \in DOMAIN Body) => UnknownFailure

\* an AppError handled in development mode
C27_Witness ==
    /\ Sent
    /\ err.kind = "AppError"
    /\ nodeEnv = "development"
    /\ err.f.stack = CapturedStack
    /\ err.f.statusCode = 500
    /\ "stack" \notin DOMAIN Body

----------------------------------------------------------------------------
(* C28 *)

\* the statusCode argument of the invocation, or the default d
StatusCodeGiven(d) ==
    IF "statusCode" \in DOMAIN call.args THEN call.args.statusCode ELSE d

\* C28: for every builder and for the middleware the status set on the
\* sink equals the statusCode field of the body sent in the same
\* invocation: for success and error the caller's statusCode argument or
\* the default 200 / 500, for the middleware the AppError's statusCode or
\* the effective status of the unknown failure.
C28_StatusMatchesBody ==
    /\ Enveloped =>
         /\ OneEnvelope
         /\ Status = Body.statusCode
    /\ BuiltBy("success") => Status = StatusCodeGiven(200)
    /\ BuiltBy("error") => Status = StatusCodeGiven(500)
    /\ (Sent /\ err.kind = "AppError") => Status = err.f.statusCode
    /\ (Sent /\ UnknownFailure) =>
         Status = (IF CarriesStatusCode /\ err.f.statusCode # 0
                   THEN err.f.statusCode ELSE 500)

\* error(res, "Created", 0): status 0 on the sink and in the body
C28_Witness ==
    /\ BuiltBy("error")
    /\ "statusCode" \in DOMAIN call.args
    /\ call.args.statusCode = 0
    /\ Status = 0
    /\ Body.statusCode = 0

----------------------------------------------------------------------------
(* C29 *)

\* items remain beyond the current page
ItemsRemain ==
    PaginationGiven.page * PaginationGiven.limit < PaginationGiven.total

\* the page lies beyond the last page
BeyondLastPage == PaginationGiven.page > PaginationSent.totalPages

\* C29 as stated: for every integer page >= 1, limit > 0 and total >= 0,
\* hasNextPage = (page * limit < total); a page beyond the last page has
\* hasNextPage = false while hasPrevPage stays true.
C29_Original ==
    (BuiltBy("paginated") /\ PaginationGiven.page >= 1) =>
        /\ PaginationSent.hasNextPage = ItemsRemain
        /\ BeyondLastPage =>
             /\ PaginationSent.hasNextPage = FALSE
             /\ PaginationSent.hasPrevPage = TRUE

\* C29 amended: for every integer page >= 1, limit > 0 and total >= 0,
\* hasNextPage = (page * limit < total); a page beyond the last page has
\* hasNextPage = false, and hasPrevPage = true except for page 1 of an
\* empty result (total = 0, totalPages = 0), where hasPrevPage = false.
C29_NextIffItemsRemain ==
    (BuiltBy("paginated") /\ PaginationGiven.page >= 1) =>
        /\ PaginationSent.hasNextPage = ItemsRemain
        /\ BeyondLastPage =>
             /\ PaginationSent.hasNextPage = FALSE
             /\ PaginationSent.hasPrevPage =
                  ~(PaginationGiven.page = 1 /\ PaginationGiven.total = 0)

\* page 3 of 4 items in pages of 2: beyond the last page
C29_Witness ==
    /\ BuiltBy("paginated")
    /\ PaginationGiven = [page |-> 3, limit |-> 2, total |-> 4]
    /\ PaginationSent.totalPages = 2
    /\ BeyondLastPage
    /\ PaginationSent.hasNextPage = FALSE
    /\ PaginationSent.hasPrevPage = TRUE

====
